---- MODULE Spec2Model ----
(***************************************************************************)
(* Library lending backend (src/library_api.py): registration and login    *)
(* with signed expiring tokens, the admin guard, the in-memory catalog and  *)
(* the borrow/return handlers.  Handlers declared with `def` run on the     *)
(* framework's thread pool, so every handler is modelled statement by       *)
(* statement and the statements of different requests interleave.  The      *)
(* async dependencies (get_current_user, get_admin_user) run on the event   *)
(* loop without awaiting and are one step each.                             *)
(***************************************************************************)
EXTENDS Integers, FiniteSets, Sequences, TLC

\* ------------------------------------------------------------------ bounds
\* Number of request slots (requests in flight at once) of SpecConc.
MaxConc == 2
\* Number of clock advances in one behaviour.
MaxTicks == 2
\* Number of requests that arrive in one behaviour.
MaxRequests == 4

\* ---------------------------------------------------------------- constants
ACCESS_TOKEN_EXPIRE_MINUTES == 60 * 24 * 7
SECRET_KEY == "mysupersecretkey"
ADMIN == "admin@library.com"
ADMIN_PASSWORD == "admin123"

\* Python None, for the str-valued and for the datetime/int-valued fields.
Null == "null"
NoTime == -1

\* ------------------------------------------------------------------- inputs
Emails == {ADMIN, "a@x.com"}
\* Request bodies of POST /api/register (UserCreate).
UserCreateInputs ==
  { [email |-> e, password |-> np[2], name |-> np[1]] :
      e \in Emails, np \in {<<"Alice", "pw">>, <<"Bob", ADMIN_PASSWORD>>} }
Passwords == {"pw", ADMIN_PASSWORD}
\* Salts the hasher may draw.
Salts == {1}
\* Book ids that requests name: a preloaded book (one with a borrow policy that
\* has an expiry) and an id that is not preloaded.  The clients of one behaviour
\* all name the same one.
BookIdInputs == {"3", "6"}
\* The borrow state (is_borrowed, borrowed_by, borrowed_at) a POST /api/books
\* body may carry: the defaults, and two a client sets itself.
BorrowStateInputs ==
  {<<FALSE, Null, NoTime>>, <<TRUE, "a@x.com", 0>>, <<FALSE, "a@x.com", NoTime>>}
\* The (borrow_policy, expiry_hours) a book dict may carry: those of the
\* preloaded books, None for expiry_hours included.
PolicyInputs ==
  {<<"standard", NoTime>>, <<"daily_return", 24>>, <<"timed", 72>>}
\* Clock advances, in minutes: the clock is observed once per token lifetime.
TickSteps == {ACCESS_TOKEN_EXPIRE_MINUTES}

VARIABLES
  USERS_DB,   \* email -> user dict
  BOOKS_DB,   \* book_id -> reference of the book dict
  heap,       \* reference -> book dict (dicts are shared by reference)
  now,        \* datetime.now(timezone.utc), in minutes
  ticks,      \* number of clock advances so far
  started,    \* startup_event has run
  wallet,     \* email -> the token the client of that email holds
  target,     \* the book id the clients of this behaviour name
  nreq,       \* number of requests that have arrived
  last_borrow, \* book_id -> the user of the last borrow that answered 200
  req         \* slot -> the request running (or last completed) in it

vars == <<USERS_DB, BOOKS_DB, heap, now, ticks, started, wallet, target, last_borrow, nreq, req>>

\* --------------------------------------------------------------- primitives
\* pwd_context.hash: salted one-way digest.
get_password_hash(password, salt) == [pw |-> password, salt |-> salt]

\* A verify that accepts any plaintext for a digest.
verify_password_any(plain, hashed) == hashed.pw # Null

\* pwd_context.verify: accepts exactly the digests made from the plaintext.
verify_password(plain, hashed) == hashed.pw = plain

\* jwt.encode of the payload {"sub", "exp"} under a key.
jwt_encode(payload, key) == [sub |-> payload.sub, exp |-> payload.exp, sig |-> key]

\* A decode that tests exp and does not verify the signature.
jwt_valid_nosig(token, key, t) == ~(token.exp < t)

\* A decode that verifies the signature and ignores exp.
jwt_valid_noexp(token, key, t) == token.sig = key

\* jwt.decode succeeds: signature made with the key, and exp not elapsed.
jwt_valid(token, key, t) == token.sig = key /\ ~(token.exp < t)

create_access_token(data, t) ==
  jwt_encode([sub |-> data.sub, exp |-> t + ACCESS_TOKEN_EXPIRE_MINUTES], SECRET_KEY)

NoToken == [sub |-> Null, exp |-> NoTime, sig |-> Null]
\* A token signed with another key.
ForgedToken == [sub |-> ADMIN, exp |-> 4 * ACCESS_TOKEN_EXPIRE_MINUTES, sig |-> "wrong"]
\* A token issued by an earlier run of the process (the key is fixed in the
\* source), one minute short of 7 days before this run's clock starts.
PriorToken(e) == [sub |-> e, exp |-> 1, sig |-> SECRET_KEY]

\* get_current_user: 0 when the user is resolved, else the error status.
AuthStatus(token, users, t) ==
  IF ~jwt_valid(token, SECRET_KEY, t) THEN 401
  ELSE IF token.sub \notin DOMAIN users THEN 401
  ELSE 0

\* An admin guard that forgets the role test.
AdminStatus_norole(token, users, t) == AuthStatus(token, users, t)

\* get_admin_user, after get_current_user.
AdminStatus(token, users, t) ==
  IF AuthStatus(token, users, t) # 0 THEN AuthStatus(token, users, t)
  ELSE IF users[token.sub].role # "admin" THEN 403
  ELSE 0

\* ------------------------------------------------------------------ requests
NoBody == [none |-> TRUE]
NoHash == [pw |-> Null, salt |-> 0]

NoPrev == [op |-> "idle", status |-> 0, user |-> Null, book_id |-> Null]

\* A request: the operation, the position in its handler, the response status,
\* the subject (of the token, or the email of the body), the handler's locals
\* (body, book, hashed), the token presented or issued, and for the properties:
\* peers (overlap), pre (the book dict, or the user dict, as it was when the
\* request arrived), prev (the request before it, when the requests so far ran
\* one after the other) and pre2 (the pre of prev).
Idle ==
  [op |-> "idle", pc |-> "idle", status |-> 0, user |-> Null, book_id |-> Null,
   body |-> NoBody, book |-> 0, hashed |-> NoHash, token |-> NoToken, peers |-> {},
   pre |-> NoBody, prev |-> NoPrev, pre2 |-> NoBody]

Slots == DOMAIN req
InFlight(s) == req[s].pc \notin {"idle", "done"}
\* A request is taken by the first worker that is not running one.
Free(s) == ~InFlight(s) /\ \A t \in Slots : t < s => InFlight(t)

\* A request arrives and worker s takes it.
Arrive(s) ==
  /\ started
  /\ Free(s)
  /\ nreq < MaxRequests
  /\ nreq' = nreq + 1

\* A new request r in slot s.  peers records the overlap in time: the slots
\* whose request ran while this one did, and 0 for one of them that its slot has
\* replaced since.  A request answered on arrival overlaps none.  The other
\* slots' prev and pre2 end here: the requests no longer run one after the other.
Forget(peers, s) == IF s \in peers THEN (peers \ {s}) \cup {0} ELSE peers
Begin(s, r) ==
  [t \in Slots |->
     IF t = s THEN
       [r EXCEPT !.peers = IF r.pc = "done" THEN {} ELSE {u \in Slots \ {s} : InFlight(u)}]
     ELSE IF InFlight(t) /\ r.pc # "done" THEN
       [req[t] EXCEPT !.peers = Forget(@, s) \cup {s}, !.prev = NoPrev, !.pre2 = NoBody]
     ELSE [req[t] EXCEPT !.peers = Forget(@, s), !.prev = NoPrev, !.pre2 = NoBody]]

\* The response of request r: the locals of the handler are gone (the
\* credentials of a login are kept, for the properties).
Done(r, status) ==
  [Idle EXCEPT !.op = r.op, !.pc = "done", !.status = status, !.user = r.user,
               !.book_id = r.book_id, !.token = r.token, !.peers = r.peers,
               !.pre = r.pre, !.prev = r.prev, !.pre2 = r.pre2,
               !.body = IF r.op = "login" THEN r.body ELSE NoBody]

\* The request that ran in slot s before the one arriving now, when no other
\* slot has run any (the two follow each other with nothing in between) and
\* the two are about the same book, or register the same email.
Prev(s, op, user, book_id) ==
  IF /\ req[s].pc = "done"
     /\ \A t \in Slots \ {s} : req[t].op = "idle"
     /\ \/ op \in {"borrow", "return"} /\ req[s].op \in {"borrow", "return"}
           /\ req[s].book_id = book_id
        \/ op = "register" /\ req[s].op = "register" /\ req[s].user = user
  THEN [op |-> req[s].op, status |-> req[s].status, user |-> req[s].user,
        book_id |-> req[s].book_id]
  ELSE NoPrev

\* The book dict stored under an id, None when there is none.
Record(book_id) ==
  IF book_id \in DOMAIN BOOKS_DB THEN heap[BOOKS_DB[book_id]] ELSE NoBody

\* The request arriving in slot s, of operation op.
New(s, op, user, book_id, token, pre) ==
  [Idle EXCEPT !.op = op, !.user = user, !.book_id = book_id, !.token = token,
               !.pre = pre, !.prev = Prev(s, op, user, book_id),
               !.pre2 = IF Prev(s, op, user, book_id) # NoPrev THEN req[s].pre ELSE NoBody]

\* References in use; the heap keeps only these.
Live(db, rq) ==
  ({db[b] : b \in DOMAIN db} \cup {rq[s].book : s \in DOMAIN rq}) \ {0}
Gc(h, db, rq) == [o \in (DOMAIN h \cap Live(db, rq)) |-> h[o]]
\* A reference for a new dict: one that no live dict has.
NewRef(live) == CHOOSE n \in 1..(Cardinality(live) + 1) : n \notin live

\* ------------------------------------------------------------------- startup
sample_books ==
  << [book_id |-> "1", title |-> "Clean Code", author |-> "Robert Martin",
      category |-> "Programming",
      description |-> "A Handbook of Agile Software Craftsmanship",
      borrow_policy |-> "standard"],
     [book_id |-> "2", title |-> "Introduction to Algorithms", author |-> "Cormen",
      category |-> "Programming",
      description |-> "Comprehensive algorithms textbook",
      borrow_policy |-> "standard"],
     [book_id |-> "3", title |-> "Python Crash Course", author |-> "Eric Matthes",
      category |-> "Programming",
      description |-> "Hands-on Python project-based guide",
      borrow_policy |-> "daily_return", expiry_hours |-> 24],
     [book_id |-> "4", title |-> "The Pragmatic Programmer", author |-> "Andrew Hunt",
      category |-> "Programming", description |-> "Journey to Mastery",
      borrow_policy |-> "standard"],
     [book_id |-> "5", title |-> "Design Patterns",
      author |-> "Gamma, Helm, Johnson, Vlissides", category |-> "Programming",
      description |-> "Elements of Reusable Object-Oriented Software",
      borrow_policy |-> "timed", expiry_hours |-> 72] >>

\* {**book, "is_borrowed": False, "borrowed_by": None, "borrowed_at": None, "created_at": now}
Preloaded(book, t) ==
  [k \in DOMAIN book \cup {"is_borrowed", "borrowed_by", "borrowed_at", "created_at"} |->
     CASE k = "is_borrowed" -> FALSE
       [] k = "borrowed_by" -> Null
       [] k = "borrowed_at" -> NoTime
       [] k = "created_at" -> t
       [] OTHER -> book[k]]

startup_event ==
  /\ ~started
  /\ started' = TRUE
  /\ \E salt \in Salts :
       USERS_DB' =
         IF ADMIN \notin DOMAIN USERS_DB
         THEN [e \in DOMAIN USERS_DB \cup {ADMIN} |->
                 IF e = ADMIN
                 THEN [email |-> ADMIN, name |-> "Admin",
                       password |-> get_password_hash(ADMIN_PASSWORD, salt),
                       role |-> "admin", created_at |-> now]
                 ELSE USERS_DB[e]]
         ELSE USERS_DB
  /\ BOOKS_DB' = [b \in DOMAIN BOOKS_DB \cup {sample_books[i].book_id : i \in 1..Len(sample_books)} |->
                    IF \E i \in 1..Len(sample_books) : sample_books[i].book_id = b
                    THEN CHOOSE i \in 1..Len(sample_books) : sample_books[i].book_id = b
                    ELSE BOOKS_DB[b]]
  /\ heap' = Gc([o \in DOMAIN heap \cup (1..Len(sample_books)) |->
                   IF o \in 1..Len(sample_books) THEN Preloaded(sample_books[o], now)
                   ELSE heap[o]], BOOKS_DB', req)
  /\ UNCHANGED <<now, ticks, wallet, target, last_borrow, nreq, req>>

\* The clock advances, by minutes: between requests (a handler takes far
\* less), whose responses have been delivered by then.
Tick ==
  /\ ticks < MaxTicks
  /\ \A s \in Slots : ~InFlight(s)
  /\ \E d \in TickSteps : now' = now + d
  /\ ticks' = ticks + 1
  /\ req' = [s \in Slots |-> Idle]
  /\ UNCHANGED <<USERS_DB, BOOKS_DB, heap, started, wallet, target, last_borrow, nreq>>

\* ------------------------------------------------------------------ register
\* A register that skips the membership test of line 111.
register_unchecked(s, user) ==
  /\ Arrive(s)
  /\ LET r == [New(s, "register", user.email, Null, NoToken,
                      IF user.email \in DOMAIN USERS_DB THEN USERS_DB[user.email]
                      ELSE NoBody)
                EXCEPT !.body = user]
     IN req' = Begin(s, [r EXCEPT !.pc = "reg_hash"])
  /\ UNCHANGED <<USERS_DB, BOOKS_DB, heap, now, ticks, started, wallet, target, last_borrow>>

\* POST /api/register arrives: the membership test of line 111.
register(s, user) ==
  /\ Arrive(s)
  /\ LET r == [New(s, "register", user.email, Null, NoToken,
                      IF user.email \in DOMAIN USERS_DB THEN USERS_DB[user.email]
                      ELSE NoBody)
                EXCEPT !.body = user]
     IN req' = Begin(s,
          IF user.email \in DOMAIN USERS_DB
          THEN Done(r, 400)
          ELSE [r EXCEPT !.pc = "reg_hash"])
  /\ UNCHANGED <<USERS_DB, BOOKS_DB, heap, now, ticks, started, wallet, target, last_borrow>>

\* get_password_hash(user.password), inside the dict display of line 114.
register_hash(s) ==
  /\ req[s].op = "register" /\ req[s].pc = "reg_hash"
  /\ \E salt \in Salts :
       req' = [req EXCEPT ![s].hashed = get_password_hash(req[s].body.password, salt),
                          ![s].pc = "reg_store"]
  /\ UNCHANGED <<USERS_DB, BOOKS_DB, heap, now, ticks, started, wallet, target, last_borrow, nreq>>

\* A register that stores the role admin.
register_store_admin(s) ==
  /\ req[s].op = "register" /\ req[s].pc = "reg_store"
  /\ USERS_DB' =
       [e \in DOMAIN USERS_DB \cup {req[s].body.email} |->
          IF e = req[s].body.email
          THEN [email |-> req[s].body.email, name |-> req[s].body.name,
                password |-> req[s].hashed, role |-> "admin", created_at |-> now]
          ELSE USERS_DB[e]]
  /\ req' = [req EXCEPT ![s] = Done(req[s], 200)]
  /\ UNCHANGED <<BOOKS_DB, heap, now, ticks, started, wallet, target, last_borrow, nreq>>

\* USERS_DB[user.email] = {...}, and the response.
register_store(s) ==
  /\ req[s].op = "register" /\ req[s].pc = "reg_store"
  /\ USERS_DB' =
       [e \in DOMAIN USERS_DB \cup {req[s].body.email} |->
          IF e = req[s].body.email
          THEN [email |-> req[s].body.email, name |-> req[s].body.name,
                password |-> req[s].hashed, role |-> "user", created_at |-> now]
          ELSE USERS_DB[e]]
  /\ req' = [req EXCEPT ![s] = Done(req[s], 200)]
  /\ UNCHANGED <<BOOKS_DB, heap, now, ticks, started, wallet, target, last_borrow, nreq>>

\* --------------------------------------------------------------------- login
\* POST /api/login: one read of USERS_DB, then local computation.
login(s, email, password) ==
  /\ Arrive(s)
  /\ LET ok == /\ email \in DOMAIN USERS_DB
               /\ verify_password(password, USERS_DB[email].password)
         token == create_access_token([sub |-> email], now)
         r == [New(s, "login", email, Null, NoToken, NoBody) EXCEPT
                 !.body = [email |-> email, password |-> password]]
     IN /\ req' = Begin(s,
             IF ok THEN Done([r EXCEPT !.token = token], 200) ELSE Done(r, 401))
        /\ wallet' = IF ok THEN [wallet EXCEPT ![email] = token] ELSE wallet
  /\ UNCHANGED <<USERS_DB, BOOKS_DB, heap, now, ticks, started, target, last_borrow>>

\* Tokens a client can put in the Authorization header.
TokenInputs == ({wallet[e] : e \in Emails} \ {NoToken}) \cup {ForgedToken}

\* ------------------------------------------------------------------ add_book
\* The Book a POST /api/books body validates to (created_at defaults to now).
BookInputs(t) ==
  { [book_id |-> id, title |-> "X", author |-> "Y", category |-> "Z",
     description |-> Null, borrow_policy |-> "standard", expiry_hours |-> NoTime,
     is_borrowed |-> bs[1], borrowed_by |-> bs[2], borrowed_at |-> bs[3],
     created_at |-> t] : id \in {target}, bs \in BorrowStateInputs }

\* POST /api/books arrives: Depends(get_admin_user).
add_book(s, token, book) ==
  /\ Arrive(s)
  /\ LET r == [New(s, "add_book", token.sub, book.book_id, token, Record(book.book_id))
                EXCEPT !.body = book]
         st == AdminStatus(token, USERS_DB, now)
     IN req' = Begin(s, IF st # 0 THEN Done(r, st) ELSE [r EXCEPT !.pc = "add_store"])
  /\ UNCHANGED <<USERS_DB, BOOKS_DB, heap, now, ticks, started, wallet, target, last_borrow>>

\* BOOKS_DB[book.book_id] = book.dict(): a new dict replaces the entry.
add_book_store(s) ==
  /\ req[s].op = "add_book" /\ req[s].pc = "add_store"
  /\ LET ref == NewRef(Live([b \in DOMAIN BOOKS_DB \ {req[s].book_id} |-> BOOKS_DB[b]], req))
         h == [o \in DOMAIN heap \cup {ref} |-> IF o = ref THEN req[s].body ELSE heap[o]]
     IN /\ BOOKS_DB' = [b \in DOMAIN BOOKS_DB \cup {req[s].book_id} |->
                          IF b = req[s].book_id THEN ref ELSE BOOKS_DB[b]]
        /\ req' = [req EXCEPT ![s] = Done(req[s], 200)]
        /\ heap' = Gc(h, BOOKS_DB', req')
  /\ UNCHANGED <<USERS_DB, now, ticks, started, wallet, target, last_borrow, nreq>>

\* --------------------------------------------------------------- borrow_book
\* A test that takes a loan of a book with another policy than standard as lapsed.
book_is_borrowed_lapsing(book) == book.is_borrowed /\ book.borrow_policy = "standard"

\* book["is_borrowed"], as lines 154 and 169 read it.
book_is_borrowed(book) == book.is_borrowed

\* book["borrowed_by"], as line 169 reads it.
book_borrowed_by(book) == book.borrowed_by

\* POST /api/books/borrow/{book_id} arrives: Depends(get_current_user).
borrow_book(s, token, book_id) ==
  /\ Arrive(s)
  /\ LET r == New(s, "borrow", token.sub, book_id, token, Record(book_id))
         st == AuthStatus(token, USERS_DB, now)
     IN req' = Begin(s, IF st # 0 THEN Done(r, st) ELSE [r EXCEPT !.pc = "b151"])
  /\ UNCHANGED <<USERS_DB, BOOKS_DB, heap, now, ticks, started, wallet, target, last_borrow>>

\* Lines 151-153: book = BOOKS_DB.get(book_id); 404 when there is none.
borrow_get(s) ==
  /\ req[s].op = "borrow" /\ req[s].pc = "b151"
  /\ req' = [req EXCEPT ![s] =
       IF req[s].book_id \notin DOMAIN BOOKS_DB THEN Done(req[s], 404)
       ELSE [req[s] EXCEPT !.book = BOOKS_DB[req[s].book_id], !.pc = "b154"]]
  /\ UNCHANGED <<USERS_DB, BOOKS_DB, heap, now, ticks, started, wallet, target, last_borrow, nreq>>

\* A borrow that skips the test of line 154.
borrow_check_none(s) ==
  /\ req[s].op = "borrow" /\ req[s].pc = "b154"
  /\ req' = [req EXCEPT ![s].pc = "b157"]
  /\ heap' = Gc(heap, BOOKS_DB, req')
  /\ UNCHANGED <<USERS_DB, BOOKS_DB, now, ticks, started, wallet, target, last_borrow, nreq>>

\* Lines 154-155: 400 when book["is_borrowed"].
borrow_check(s) ==
  /\ req[s].op = "borrow" /\ req[s].pc = "b154"
  /\ req' = [req EXCEPT ![s] =
       IF book_is_borrowed(heap[req[s].book]) THEN Done(req[s], 400)
       ELSE [req[s] EXCEPT !.pc = "b157"]]
  /\ heap' = Gc(heap, BOOKS_DB, req')
  /\ UNCHANGED <<USERS_DB, BOOKS_DB, now, ticks, started, wallet, target, last_borrow, nreq>>

\* Line 157: book["is_borrowed"] = True
borrow_set_is_borrowed(s) ==
  /\ req[s].op = "borrow" /\ req[s].pc = "b157"
  /\ heap' = [heap EXCEPT ![req[s].book].is_borrowed = TRUE]
  /\ req' = [req EXCEPT ![s].pc = "b158"]
  /\ UNCHANGED <<USERS_DB, BOOKS_DB, now, ticks, started, wallet, target, last_borrow, nreq>>

\* Line 158: book["borrowed_by"] = user.email
borrow_set_borrowed_by(s) ==
  /\ req[s].op = "borrow" /\ req[s].pc = "b158"
  /\ heap' = [heap EXCEPT ![req[s].book].borrowed_by = req[s].user]
  /\ req' = [req EXCEPT ![s].pc = "b159"]
  /\ UNCHANGED <<USERS_DB, BOOKS_DB, now, ticks, started, wallet, target, last_borrow, nreq>>

\* A borrow that writes the time to created_at as well.
borrow_set_borrowed_at_created(s) ==
  /\ req[s].op = "borrow" /\ req[s].pc = "b159"
  /\ heap' = [heap EXCEPT ![req[s].book].borrowed_at = now, ![req[s].book].created_at = now]
  /\ req' = [req EXCEPT ![s].pc = "b160"]
  /\ UNCHANGED <<USERS_DB, BOOKS_DB, now, ticks, started, wallet, target, last_borrow, nreq>>

\* Line 159: book["borrowed_at"] = datetime.now(timezone.utc)
borrow_set_borrowed_at(s) ==
  /\ req[s].op = "borrow" /\ req[s].pc = "b159"
  /\ heap' = [heap EXCEPT ![req[s].book].borrowed_at = now]
  /\ req' = [req EXCEPT ![s].pc = "b160"]
  /\ UNCHANGED <<USERS_DB, BOOKS_DB, now, ticks, started, wallet, target, last_borrow, nreq>>

\* Lines 160-161: BOOKS_DB[book_id] = book, and the response.
borrow_store(s) ==
  /\ req[s].op = "borrow" /\ req[s].pc = "b160"
  /\ BOOKS_DB' = [BOOKS_DB EXCEPT ![req[s].book_id] = req[s].book]
  /\ req' = [req EXCEPT ![s] = Done(req[s], 200)]
  /\ heap' = Gc(heap, BOOKS_DB', req')
  /\ last_borrow' = [last_borrow EXCEPT ![req[s].book_id] = req[s].user]
  /\ UNCHANGED <<USERS_DB, now, ticks, started, wallet, target, nreq>>

\* --------------------------------------------------------------- return_book
\* POST /api/books/return/{book_id} arrives: Depends(get_current_user).
return_book(s, token, book_id) ==
  /\ Arrive(s)
  /\ LET r == New(s, "return", token.sub, book_id, token, Record(book_id))
         st == AuthStatus(token, USERS_DB, now)
     IN req' = Begin(s, IF st # 0 THEN Done(r, st) ELSE [r EXCEPT !.pc = "r166"])
  /\ UNCHANGED <<USERS_DB, BOOKS_DB, heap, now, ticks, started, wallet, target, last_borrow>>

\* Lines 166-168: book = BOOKS_DB.get(book_id); 404 when there is none.
return_get(s) ==
  /\ req[s].op = "return" /\ req[s].pc = "r166"
  /\ req' = [req EXCEPT ![s] =
       IF req[s].book_id \notin DOMAIN BOOKS_DB THEN Done(req[s], 404)
       ELSE [req[s] EXCEPT !.book = BOOKS_DB[req[s].book_id], !.pc = "r169"]]
  /\ UNCHANGED <<USERS_DB, BOOKS_DB, heap, now, ticks, started, wallet, target, last_borrow, nreq>>

\* Line 169, left operand: 400 when not book["is_borrowed"].
return_check_is_borrowed(s) ==
  /\ req[s].op = "return" /\ req[s].pc = "r169"
  /\ req' = [req EXCEPT ![s] =
       IF ~book_is_borrowed(heap[req[s].book]) THEN Done(req[s], 400)
       ELSE [req[s] EXCEPT !.pc = "r169b"]]
  /\ heap' = Gc(heap, BOOKS_DB, req')
  /\ UNCHANGED <<USERS_DB, BOOKS_DB, now, ticks, started, wallet, target, last_borrow, nreq>>

\* A return that writes line 172 before the right operand of line 169 is tested.
return_check_borrowed_by_late(s) ==
  /\ req[s].op = "return" /\ req[s].pc = "r169b"
  /\ req' = [req EXCEPT ![s] =
       IF book_borrowed_by(heap[req[s].book]) # req[s].user THEN Done(req[s], 400)
       ELSE [req[s] EXCEPT !.pc = "r172"]]
  /\ heap' = Gc([heap EXCEPT ![req[s].book].is_borrowed = FALSE], BOOKS_DB, req')
  /\ UNCHANGED <<USERS_DB, BOOKS_DB, now, ticks, started, wallet, target, last_borrow, nreq>>

\* Line 169, right operand: 400 when book["borrowed_by"] != user.email.
return_check_borrowed_by(s) ==
  /\ req[s].op = "return" /\ req[s].pc = "r169b"
  /\ req' = [req EXCEPT ![s] =
       IF book_borrowed_by(heap[req[s].book]) # req[s].user THEN Done(req[s], 400)
       ELSE [req[s] EXCEPT !.pc = "r172"]]
  /\ heap' = Gc(heap, BOOKS_DB, req')
  /\ UNCHANGED <<USERS_DB, BOOKS_DB, now, ticks, started, wallet, target, last_borrow, nreq>>

\* Line 172: book["is_borrowed"] = False
return_set_is_borrowed(s) ==
  /\ req[s].op = "return" /\ req[s].pc = "r172"
  /\ heap' = [heap EXCEPT ![req[s].book].is_borrowed = FALSE]
  /\ req' = [req EXCEPT ![s].pc = "r173"]
  /\ UNCHANGED <<USERS_DB, BOOKS_DB, now, ticks, started, wallet, target, last_borrow, nreq>>

\* Line 173: book["borrowed_by"] = None
return_set_borrowed_by(s) ==
  /\ req[s].op = "return" /\ req[s].pc = "r173"
  /\ heap' = [heap EXCEPT ![req[s].book].borrowed_by = Null]
  /\ req' = [req EXCEPT ![s].pc = "r174"]
  /\ UNCHANGED <<USERS_DB, BOOKS_DB, now, ticks, started, wallet, target, last_borrow, nreq>>

\* Line 174: book["borrowed_at"] = None
return_set_borrowed_at(s) ==
  /\ req[s].op = "return" /\ req[s].pc = "r174"
  /\ heap' = [heap EXCEPT ![req[s].book].borrowed_at = NoTime]
  /\ req' = [req EXCEPT ![s].pc = "r175"]
  /\ UNCHANGED <<USERS_DB, BOOKS_DB, now, ticks, started, wallet, target, last_borrow, nreq>>

\* Lines 175-176: BOOKS_DB[book_id] = book, and the response.
return_store(s) ==
  /\ req[s].op = "return" /\ req[s].pc = "r175"
  /\ BOOKS_DB' = [BOOKS_DB EXCEPT ![req[s].book_id] = req[s].book]
  /\ req' = [req EXCEPT ![s] = Done(req[s], 200)]
  /\ heap' = Gc(heap, BOOKS_DB', req')
  /\ UNCHANGED <<USERS_DB, now, ticks, started, wallet, target, last_borrow, nreq>>

\* ------------------------------------------------------------- specification
\* The module-level state of a new process, before startup_event.  The clients
\* hold the tokens an earlier run of the process issued to them.
InitStores ==
  /\ USERS_DB = <<>>
  /\ BOOKS_DB = <<>>
  /\ heap = <<>>
  /\ now = 0
  /\ ticks = 0
  /\ started = FALSE
  /\ nreq = 0
  /\ last_borrow = [b \in BookIdInputs |-> Null]
  /\ wallet = [e \in Emails |-> PriorToken(e)]
  /\ target \in BookIdInputs

\* One request at a time.
Init ==
  /\ InitStores
  /\ req = [s \in 1..1 |-> Idle]

\* MaxConc requests at a time.
InitConc ==
  /\ InitStores
  /\ req = [s \in 1..MaxConc |-> Idle]

Requests ==
  \/ \E s \in Slots, user \in UserCreateInputs : register(s, user)
  \/ \E s \in Slots : register_hash(s)
  \/ \E s \in Slots : register_store(s)
  \/ \E s \in Slots, email \in Emails, password \in Passwords : login(s, email, password)
  \/ \E s \in Slots, token \in TokenInputs, book \in BookInputs(now) : add_book(s, token, book)
  \/ \E s \in Slots : add_book_store(s)
  \/ \E s \in Slots, token \in TokenInputs, book_id \in {target} : borrow_book(s, token, book_id)
  \/ \E s \in Slots : borrow_get(s)
  \/ \E s \in Slots : borrow_check(s)
  \/ \E s \in Slots : borrow_set_is_borrowed(s)
  \/ \E s \in Slots : borrow_set_borrowed_by(s)
  \/ \E s \in Slots : borrow_set_borrowed_at(s)
  \/ \E s \in Slots : borrow_store(s)
  \/ \E s \in Slots, token \in TokenInputs, book_id \in {target} : return_book(s, token, book_id)
  \/ \E s \in Slots : return_get(s)
  \/ \E s \in Slots : return_check_is_borrowed(s)
  \/ \E s \in Slots : return_check_borrowed_by(s)
  \/ \E s \in Slots : return_set_is_borrowed(s)
  \/ \E s \in Slots : return_set_borrowed_by(s)
  \/ \E s \in Slots : return_set_borrowed_at(s)
  \/ \E s \in Slots : return_store(s)

\* One request at a time, with the clock advancing.
Next == startup_event \/ Tick \/ Requests

\* Requests in flight together, within one clock minute.
NextConc == startup_event \/ Requests

Spec == Init /\ [][Next]_vars
SpecConc == InitConc /\ [][NextConc]_vars

\* ==================================================================== claims
IsDone(s, op) == req[s].op = op /\ req[s].pc = "done"

\* Two requests that ran at the same time, and no third one with them.
Exclusive(s1, s2) == s1 # s2 /\ req[s1].peers = {s2} /\ req[s2].peers = {s1}

Available(r) == ~r.is_borrowed /\ r.borrowed_by = Null /\ r.borrowed_at = NoTime
BorrowedBy(r, u) == r.is_borrowed /\ r.borrowed_by = u /\ r.borrowed_at # NoTime
\* The book of request s was borrowed by its requester when the request arrived.
Held(s) == req[s].pre # NoBody /\ BorrowedBy(req[s].pre, req[s].user)

\* C1: two borrow requests of distinct users on the same book that run at the
\* same time never both answer 200.
C1_ConcurrentBorrowOneWinner ==
  \A s1, s2 \in Slots :
    ( /\ IsDone(s1, "borrow") /\ IsDone(s2, "borrow")
      /\ Exclusive(s1, s2)
      /\ req[s1].book_id = req[s2].book_id
      /\ req[s1].user # req[s2].user )
    => ~(req[s1].status = 200 /\ req[s2].status = 200)

\* C2: in every state with no request in flight, every book of the catalog is
\* either not borrowed, with no borrower and no borrow time, or borrowed, with a
\* borrower and a borrow time.
C2_BorrowFieldsConsistent ==
  (\A s \in Slots : ~InFlight(s))
  => \A b \in DOMAIN BOOKS_DB :
       LET r == heap[BOOKS_DB[b]]
       IN /\ ~r.is_borrowed => (r.borrowed_by = Null /\ r.borrowed_at = NoTime)
          /\ r.is_borrowed => (r.borrowed_by # Null /\ r.borrowed_at # NoTime)

\* C3: a return by the borrower of a book and a borrow by another user, on the
\* same book and at the same time, end as one of the two serial orders does:
\* return then borrow (200 and 200, the book borrowed by the other user) or
\* borrow then return (400 and 200, the book available).
C3_ReturnBorrowLinearizable ==
  \A s1, s2 \in Slots :
    ( /\ IsDone(s1, "return") /\ IsDone(s2, "borrow")
      /\ Exclusive(s1, s2)
      /\ req[s1].book_id = req[s2].book_id
      /\ req[s1].user # req[s2].user
      /\ Held(s1) )
    => /\ req[s1].status = 200
       /\ \/ req[s2].status = 200 /\ BorrowedBy(Record(req[s2].book_id), req[s2].user)
          \/ req[s2].status = 400 /\ Available(Record(req[s2].book_id))

\* The request of slot s has been answered and passed get_current_user.
Authenticated(s) ==
  req[s].pc = "done" /\ AuthStatus(req[s].token, USERS_DB, now) = 0

\* C4: a return answers 200 only to the user whose borrow of the book was the
\* last one to answer 200; to any other authenticated user it answers 400 and
\* the book dict stays as it was.
C4_ReturnOnlyByLastBorrower ==
  \A s \in Slots :
    ( IsDone(s, "return") /\ Authenticated(s) /\ req[s].pre # NoBody )
    => /\ req[s].status = 200 => last_borrow[req[s].book_id] = req[s].user
       /\ last_borrow[req[s].book_id] # req[s].user
            => req[s].status = 400 /\ Record(req[s].book_id) = req[s].pre

\* C5: a return by user u that follows a borrow by u of the same book that
\* answered 200, with no request in between, answers 200 and leaves the book
\* dict equal to the one before the borrow, not borrowed, with no borrower and
\* no borrow time.
C5_BorrowReturnRoundTrip ==
  \A s \in Slots :
    ( /\ IsDone(s, "return") /\ Authenticated(s)
      /\ req[s].prev = [op |-> "borrow", status |-> 200, user |-> req[s].user,
                        book_id |-> req[s].book_id] )
    => /\ req[s].status = 200
       /\ Record(req[s].book_id) = req[s].pre2
       /\ Available(Record(req[s].book_id))

\* C6: a register for an email that follows a register for the same email, with
\* no request in between, answers 400; the store has a record for the email, the
\* one it had when the second request arrived, and when the first request
\* answered 200 that record has role user.
C6_RegisterTwiceSecondFails ==
  \A s \in Slots :
    ( IsDone(s, "register") /\ req[s].prev.op = "register"
      /\ req[s].prev.user = req[s].user )
    => /\ req[s].status = 400
       /\ req[s].user \in DOMAIN USERS_DB
       /\ USERS_DB[req[s].user] = req[s].pre
       /\ req[s].prev.status = 200 => USERS_DB[req[s].user].role = "user"

\* A second register for a@x.com has been refused, after a first that answered 200.
C6_Witness ==
  \E s \in Slots :
    /\ IsDone(s, "register") /\ req[s].user = "a@x.com" /\ req[s].status = 400
    /\ req[s].prev = [op |-> "register", status |-> 200, user |-> "a@x.com",
                      book_id |-> Null]

\* C7: two register requests for the same email that run at the same time never
\* both answer 200.
C7_ConcurrentRegisterOneWinner ==
  \A s1, s2 \in Slots :
    ( /\ IsDone(s1, "register") /\ IsDone(s2, "register")
      /\ Exclusive(s1, s2)
      /\ req[s1].user = req[s2].user )
    => ~(req[s1].status = 200 /\ req[s2].status = 200)

\* The (email, password) of a login is a registered pair: the digest stored for
\* the email was made from the password.
Registered(email, password) ==
  email \in DOMAIN USERS_DB /\ USERS_DB[email].password.pw = password

\* C8: a login with a registered (email, password) pair answers 200 with a token
\* that get_current_user resolves to the user of that email; a login with
\* another password, or with an email that is not registered, answers 401 with
\* no token.
C8_LoginCredentials ==
  \A s \in Slots :
    IsDone(s, "login")
    => IF Registered(req[s].body.email, req[s].body.password)
       THEN /\ req[s].status = 200
            /\ req[s].token # NoToken
            /\ AuthStatus(req[s].token, USERS_DB, now) = 0
            /\ USERS_DB[req[s].token.sub].email = req[s].body.email
       ELSE req[s].status = 401 /\ req[s].token = NoToken

\* a@x.com has registered and logged in.
C8_Witness ==
  \E s \in Slots :
    /\ IsDone(s, "login") /\ req[s].status = 200 /\ req[s].user = "a@x.com"
    /\ Registered("a@x.com", req[s].body.password)

\* The request of slot s presented a token, and has been answered.
Presented(s) ==
  req[s].op \in {"borrow", "return", "add_book"} /\ req[s].pc = "done"

\* C9: a token issued at time t has exp = t + 7 days (in minutes); a borrow,
\* return or add_book with a token of this process whose exp has passed answers
\* 401, and the step that answers 401 changes neither store; with a token of
\* this process whose exp has not passed and whose subject is registered, it
\* does not answer 401.
C9_TokenExpiry ==
  /\ [](\A s \in Slots :
         /\ (IsDone(s, "login") /\ req[s].status = 200)
              => req[s].token.exp = now + 7 * 24 * 60
         /\ (Presented(s) /\ req[s].token.sig = SECRET_KEY)
              => /\ req[s].token.exp < now => req[s].status = 401
                 /\ (~(req[s].token.exp < now) /\ req[s].token.sub \in DOMAIN USERS_DB)
                      => req[s].status # 401)
  /\ [][\A s \in Slots :
          (req'[s] # req[s] /\ req'[s].pc = "done" /\ req'[s].status = 401)
          => UNCHANGED <<USERS_DB, BOOKS_DB, heap>>]_vars

\* A token issued by a login at time 0 has been refused after its exp.
C9_Witness ==
  \E s \in Slots :
    /\ Presented(s) /\ req[s].status = 401
    /\ req[s].token = create_access_token([sub |-> req[s].user], 0)
    /\ req[s].token.exp < now

\* C10: an add_book with a valid token of a user whose role is not admin answers
\* 403 and the catalog entry of its book id stays as it was; an add_book reaches
\* its store, and answers 200, only with a token of a user whose role is admin.
C10_AddBookAdminOnly ==
  \A s \in Slots :
    req[s].op = "add_book"
    => /\ (IsDone(s, "add_book") /\ Authenticated(s)
            /\ USERS_DB[req[s].token.sub].role # "admin")
           => req[s].status = 403 /\ Record(req[s].book_id) = req[s].pre
       /\ (req[s].pc = "add_store" \/ req[s].status = 200)
           => /\ req[s].token.sub \in DOMAIN USERS_DB
              /\ USERS_DB[req[s].token.sub].role = "admin"

\* a@x.com, registered and holding a valid token, has been refused an add_book.
C10_Witness ==
  \E s \in Slots :
    /\ IsDone(s, "add_book") /\ req[s].status = 403 /\ req[s].user = "a@x.com"
    /\ Authenticated(s)

\* C11: a borrow by an authenticated user that follows, with no request in
\* between, a borrow of the same book that answered 200 answers 400 and leaves
\* the book borrowed by the first borrower, with the borrow time unchanged; a
\* return by u that follows, with no request in between, a return of the same
\* book by u that answered 200 answers 400, the book being available.
C11_IllegalTransitionsRejected ==
  \A s \in Slots :
    /\ ( /\ IsDone(s, "borrow") /\ Authenticated(s)
         /\ req[s].prev.op = "borrow" /\ req[s].prev.status = 200 )
       => /\ req[s].status = 400
          /\ req[s].pre.borrowed_by = req[s].prev.user
          /\ Record(req[s].book_id).is_borrowed
          /\ Record(req[s].book_id).borrowed_by = req[s].pre.borrowed_by
          /\ Record(req[s].book_id).borrowed_at = req[s].pre.borrowed_at
    /\ ( /\ IsDone(s, "return") /\ Authenticated(s)
         /\ req[s].prev = [op |-> "return", status |-> 200, user |-> req[s].user,
                           book_id |-> req[s].book_id] )
       => /\ req[s].status = 400
          /\ Available(req[s].pre)
          /\ Record(req[s].book_id) = req[s].pre

\* A borrow by admin@library.com has been refused, right after a borrow of the
\* same book by a@x.com that answered 200.
C11_Witness ==
  \E s \in Slots :
    /\ IsDone(s, "borrow") /\ Authenticated(s) /\ req[s].status = 400
    /\ req[s].user = ADMIN
    /\ req[s].prev = [op |-> "borrow", status |-> 200, user |-> "a@x.com",
                      book_id |-> req[s].book_id]

\* The borrow state of a book dict.
BorrowState(r) == <<r.is_borrowed, r.borrowed_by, r.borrowed_at>>

\* C12: an add_book that answers 200 for an id that was in the catalog when the
\* request arrived leaves the borrow state of that book as it was.
C12_AddBookKeepsBorrowState ==
  \A s \in Slots :
    ( IsDone(s, "add_book") /\ req[s].status = 200 /\ req[s].pre # NoBody )
    => BorrowState(Record(req[s].book_id)) = BorrowState(req[s].pre)

\* C13: in every state the users with role admin are among {admin@library.com};
\* a request is in flight or answered only after startup_event has stored
\* admin@library.com, so an add_book reaches its store only then; and a register
\* of admin@library.com answers 400.
C13_AdminOnlyFromSeed ==
  /\ \A e \in DOMAIN USERS_DB : USERS_DB[e].role = "admin" => e = ADMIN
  /\ \A s \in Slots :
       /\ req[s].op # "idle" => (started /\ ADMIN \in DOMAIN USERS_DB)
       /\ (req[s].op = "add_book" /\ (req[s].pc = "add_store" \/ req[s].status = 200))
            => (started /\ req[s].user = ADMIN /\ USERS_DB[ADMIN].role = "admin")
       /\ (IsDone(s, "register") /\ req[s].user = ADMIN) => req[s].status = 400

\* After a@x.com has registered, a register of admin@library.com has been refused.
C13_Witness ==
  \E s \in Slots :
    /\ IsDone(s, "register") /\ req[s].user = ADMIN /\ req[s].status = 400
    /\ "a@x.com" \in DOMAIN USERS_DB /\ USERS_DB["a@x.com"].role = "user"

\* The catalog as a client reads it: book_id -> book dict.
Catalog == [b \in DOMAIN BOOKS_DB |-> heap[BOOKS_DB[b]]]

\* The request of slot s has been answered with an error.
Failed(s) == req[s].pc = "done" /\ req[s].status # 200

\* C14: the step that answers a request with an error changes neither the user
\* store nor the catalog; once a request has been answered with an error, the
\* book dict (a borrow, return or add_book) or the user dict (a register) it
\* named is as it was when the request arrived, and after a 404 the catalog has
\* no book of that id.
C14_FailedRequestChangesNothing ==
  /\ [](\A s \in Slots :
         Failed(s)
         => /\ req[s].op \in {"borrow", "return", "add_book"}
                 => Record(req[s].book_id) = req[s].pre
            /\ req[s].op = "register" => USERS_DB[req[s].user] = req[s].pre
            /\ req[s].status = 404 => req[s].book_id \notin DOMAIN BOOKS_DB)
  /\ [][\A s \in Slots :
          (req'[s] # req[s] /\ req'[s].pc = "done" /\ req'[s].status # 200)
          => (USERS_DB' = USERS_DB /\ Catalog' = Catalog)]_vars

\* A return of a book that a@x.com has borrowed has been refused to admin@library.com.
C14_Witness ==
  \E s \in Slots :
    /\ IsDone(s, "return") /\ req[s].status = 400 /\ req[s].user = ADMIN
    /\ BorrowedBy(req[s].pre, "a@x.com")

\* The book dict r with another borrow_policy and expiry_hours.
WithPolicy(r, p) ==
  [k \in DOMAIN r \cup {"borrow_policy", "expiry_hours"} |->
     CASE k = "borrow_policy" -> p[1]
       [] k = "expiry_hours" -> p[2]
       [] OTHER -> r[k]]

C16_UserRecordImmutable ==
  [][\A e \in DOMAIN USERS_DB :
       /\ e \in DOMAIN USERS_DB'
       /\ USERS_DB'[e].name = USERS_DB[e].name
       /\ USERS_DB'[e].password = USERS_DB[e].password
       /\ USERS_DB'[e].role = USERS_DB[e].role]_vars

\* C17: a borrow, return or add_book that answered 200 presented a token signed
\* with the key of the process, with exp not passed, whose subject is in the
\* user store; one whose token names a subject that is not in the store answered
\* 401; and after a borrow that answered 200 the book is borrowed by the subject
\* of its token.
C17_SuccessNeedsValidToken ==
  \A s \in Slots :
    Presented(s)
    => /\ req[s].status = 200
            => /\ req[s].token.sig = SECRET_KEY
               /\ ~(req[s].token.exp < now)
               /\ req[s].token.sub \in DOMAIN USERS_DB
       /\ req[s].token.sub \notin DOMAIN USERS_DB => req[s].status = 401
       /\ (req[s].op = "borrow" /\ req[s].status = 200)
            => /\ Record(req[s].book_id).is_borrowed
               /\ Record(req[s].book_id).borrowed_by = req[s].token.sub

\* a@x.com has registered and borrowed the book.
C17_Witness ==
  \E s \in Slots :
    /\ IsDone(s, "borrow") /\ req[s].status = 200 /\ req[s].token.sub = "a@x.com"
    /\ BorrowedBy(Record(req[s].book_id), "a@x.com")

BorrowFields == {"is_borrowed", "borrowed_by", "borrowed_at"}
\* The fields of a book dict other than its borrow state.
Rest(r) == [k \in DOMAIN r \ BorrowFields |-> r[k]]

\* C18: after a borrow or return that answered 200 the book dict has the keys it
\* had when the request arrived and, but for is_borrowed, borrowed_by and
\* borrowed_at, their values; and no step of a borrow or return changes the user
\* store, the set of book ids, the dict of another book, or a field of its own
\* book other than those three.
C18_BorrowReturnFrame ==
  /\ [](\A s \in Slots :
         ( req[s].op \in {"borrow", "return"} /\ req[s].pc = "done"
           /\ req[s].status = 200 )
         => /\ DOMAIN Record(req[s].book_id) = DOMAIN req[s].pre
            /\ Rest(Record(req[s].book_id)) = Rest(req[s].pre))
  /\ [][\A s \in Slots :
          ( InFlight(s) /\ req[s].op \in {"borrow", "return"} )
          => /\ USERS_DB' = USERS_DB
             /\ DOMAIN BOOKS_DB' = DOMAIN BOOKS_DB
             /\ \A b \in DOMAIN BOOKS_DB :
                  /\ b # req[s].book_id => Catalog'[b] = Catalog[b]
                  /\ DOMAIN Catalog'[b] = DOMAIN Catalog[b]
                  /\ Rest(Catalog'[b]) = Rest(Catalog[b])]_vars

\* admin@library.com has borrowed the preloaded book after the clock advanced.
C18_Witness ==
  \E s \in Slots :
    /\ IsDone(s, "borrow") /\ req[s].status = 200 /\ req[s].user = ADMIN
    /\ ticks > 0 /\ req[s].book_id = "3"
    /\ Record(req[s].book_id).borrowed_at = now
    /\ Record(req[s].book_id).created_at # now

\* C19: in every state with no request in flight, every book of the catalog
\* with is_borrowed true has the email of a stored user as borrowed_by.
C19_BorrowerIsRegistered ==
  (\A s \in Slots : ~InFlight(s))
  => \A b \in DOMAIN BOOKS_DB :
       Catalog[b].is_borrowed => Catalog[b].borrowed_by \in DOMAIN USERS_DB

====
